---- MODULE Spec2Model ----
(***************************************************************************)
(* A model of flopy's MF6 code generator (flopy/mf6/utils/codegen): the    *)
(* name resolver and context builder of context.py, the driver functions   *)
(* of __init__.py and the template filters of filters.py.                  *)
(*                                                                         *)
(* Python values are modelled as follows.                                  *)
(*  - str: a TLA+ string; + is \o.  The identity string of a definition is *)
(*    a sequence of string pieces, the piece "-" being the separator that  *)
(*    str.split("-") splits on.                                            *)
(*  - None: the string None (no name of the model equals it).              *)
(*  - list / tuple: a record [py, v] that keeps the Python type, because   *)
(*    Python never finds a list equal to a tuple.                          *)
(*  - an ordered dict of variables: the sequence of its values, each       *)
(*    stored under its own name.                                           *)
(*  - a call's outcome: [kind |-> "ret", val |-> v] or                     *)
(*    [kind |-> "raise", exc |-> e].                                       *)
(***************************************************************************)
EXTENDS Integers, Sequences, FiniteSets, TLC

VARIABLES
    dfns,       \* make_all: the loaded definitions, in dict order
    pc,         \* make_all: the step the driver is at
    idx,        \* make_all: index of the next definition make_targets gets
    contexts,   \* make_init: the contexts handed to the __init__.py template
    files,      \* the files written so far, in order
    err,        \* the exception that ended the run, or None
    ctx_name,   \* filters: the name of the context being rendered
    vars_,      \* filters: the variables (objects mutated in place by untag)
    given,      \* filters: the variables as first handed to the filter
    calls,      \* filters: how many times the filter has been applied
    out         \* filters: what the last application returned or raised

vars == <<dfns, pc, idx, contexts, files, err, ctx_name, vars_, given, calls, out>>

drv == <<dfns, pc, idx, contexts, files, err>>
flt == <<ctx_name, vars_, given, calls, out>>

-----------------------------------------------------------------------------
(* Python values *)

None == "None"

PyList(s) == [py |-> "list", v |-> s]
PyTuple(s) == [py |-> "tuple", v |-> s]

Ret(v) == [kind |-> "ret", val |-> v]
Raise(e) == [kind |-> "raise", exc |-> e]
NotCalled == [kind |-> "none"]

Range(s) == {s[i] : i \in 1..Len(s)}

InjSeqs(S, n) ==
    UNION {{s \in [1..k -> S] : \A i, j \in 1..k : i # j => s[i] # s[j]} : k \in 0..n}

RECURSIVE SplitAcc(_, _, _)
SplitAcc(s, cur, acc) ==
    IF s = <<>> THEN Append(acc, cur)
    ELSE IF Head(s) = "-" THEN SplitAcc(Tail(s), "", Append(acc, cur))
    ELSE SplitAcc(Tail(s), cur \o Head(s), acc)

\* str.split("-"): a list of the pieces between the separators
Split(s) == PyList(SplitAcc(s, "", <<>>))

-----------------------------------------------------------------------------
(* context.py *)

\* Context.Name is a NamedTuple: a tuple (l, r)
Context_Name(l, r) == PyTuple(<<l, r>>)

\* the literal tuples of the shared-identity test
SharedNames == {PyTuple(<<"gwf", "mvr">>), PyTuple(<<"gwf", "gnc">>), PyTuple(<<"gwt", "mvt">>)}

\* Context.Name(*name): two positional fields, anything else is a TypeError
Context_Name_star(name) ==
    IF Len(name.v) = 2 THEN Ret(Context_Name(name.v[1], name.v[2])) ELSE Raise("TypeError")

\* dfn.get("name", None) is falsy: the key is absent, or the string is empty
NoName(dfn) == ~dfn.has_name \/ dfn.name = <<>>

\* Name_from_dfn with a slip: the model context keeps the right component.
Name_from_dfn_KeepsRight(dfn) ==
    IF NoName(dfn) THEN Raise("ValueError")
    ELSE LET name == Split(dfn.name) IN
         IF Len(name.v) < 2 THEN Raise("IndexError")
         ELSE IF name.v[2] = "nam" THEN
             IF name.v[1] = "sim" THEN
                 IF Context_Name_star(name).kind = "raise" THEN Context_Name_star(name)
                 ELSE Ret(<<Context_Name(None, name.v[2]), Context_Name_star(name).val>>)
             ELSE
                 IF Context_Name_star(name).kind = "raise" THEN Context_Name_star(name)
                 ELSE Ret(<<Context_Name_star(name).val, Context_Name(name.v[1], name.v[2])>>)
         ELSE IF name \in SharedNames THEN
             IF Context_Name_star(name).kind = "raise" THEN Context_Name_star(name)
             ELSE Ret(<<Context_Name_star(name).val, Context_Name(None, name.v[2])>>)
         ELSE IF Context_Name_star(name).kind = "raise" THEN Context_Name_star(name)
         ELSE Ret(<<Context_Name_star(name).val>>)

\* Name_from_dfn with a slip: the test for the simulation marker is lost, so
\* every name file yields the generic name-file package.
Name_from_dfn_NoSimTest(dfn) ==
    IF NoName(dfn) THEN Raise("ValueError")
    ELSE LET name == Split(dfn.name) IN
         IF Len(name.v) < 2 THEN Raise("IndexError")
         ELSE IF name.v[2] = "nam" THEN
             IF Context_Name_star(name).kind = "raise" THEN Context_Name_star(name)
             ELSE Ret(<<Context_Name(None, name.v[2]), Context_Name_star(name).val>>)
         ELSE IF name \in SharedNames THEN
             IF Context_Name_star(name).kind = "raise" THEN Context_Name_star(name)
             ELSE Ret(<<Context_Name_star(name).val, Context_Name(None, name.v[2])>>)
         ELSE IF Context_Name_star(name).kind = "raise" THEN Context_Name_star(name)
         ELSE Ret(<<Context_Name_star(name).val>>)

\* Name_from_dfn with a slip: a definition without a name yields no names
\* instead of failing.
Name_from_dfn_NamelessSkipped(dfn) ==
    IF NoName(dfn) THEN Ret(<<>>)
    ELSE LET name == Split(dfn.name) IN
         IF Len(name.v) < 2 THEN Raise("IndexError")
         ELSE IF name.v[2] = "nam" THEN
             IF name.v[1] = "sim" THEN
                 IF Context_Name_star(name).kind = "raise" THEN Context_Name_star(name)
                 ELSE Ret(<<Context_Name(None, name.v[2]), Context_Name_star(name).val>>)
             ELSE
                 IF Context_Name_star(name).kind = "raise" THEN Context_Name_star(name)
                 ELSE Ret(<<Context_Name_star(name).val, Context_Name(name.v[1], None)>>)
         ELSE IF name \in SharedNames THEN
             IF Context_Name_star(name).kind = "raise" THEN Context_Name_star(name)
             ELSE Ret(<<Context_Name_star(name).val, Context_Name(None, name.v[2])>>)
         ELSE IF Context_Name_star(name).kind = "raise" THEN Context_Name_star(name)
         ELSE Ret(<<Context_Name_star(name).val>>)

\* Context.Name.from_dfn: the context names a definition produces.  name is
\* the list str.split returns, and the shared identities are tuples.
Name_from_dfn(dfn) ==
    IF NoName(dfn) THEN Raise("ValueError")
    ELSE LET name == Split(dfn.name) IN
         IF Len(name.v) < 2 THEN Raise("IndexError")
         ELSE IF name.v[2] = "nam" THEN
             IF name.v[1] = "sim" THEN
                 IF Context_Name_star(name).kind = "raise" THEN Context_Name_star(name)
                 ELSE Ret(<<Context_Name(None, name.v[2]), Context_Name_star(name).val>>)
             ELSE
                 IF Context_Name_star(name).kind = "raise" THEN Context_Name_star(name)
                 ELSE Ret(<<Context_Name_star(name).val, Context_Name(name.v[1], None)>>)
         ELSE IF name \in SharedNames THEN
             IF Context_Name_star(name).kind = "raise" THEN Context_Name_star(name)
             ELSE Ret(<<Context_Name_star(name).val, Context_Name(None, name.v[2])>>)
         ELSE IF Context_Name_star(name).kind = "raise" THEN Context_Name_star(name)
         ELSE Ret(<<Context_Name_star(name).val>>)

\* vars_[name] = var on an ordered dict of entries (key, reference to the
\* variable object): a key already there keeps its place and gets the value
DictSet(d, e) ==
    IF \E k \in 1..Len(d) : d[k].key = e.key
    THEN [k \in 1..Len(d) |-> IF d[k].key = e.key THEN e ELSE d[k]]
    ELSE Append(d, e)

RECURSIVE DictSetAll(_, _)
\* for name, var in block.items(): vars_[name] = var
DictSetAll(d, block) ==
    IF block = <<>> THEN d ELSE DictSetAll(DictSet(d, Head(block)), Tail(block))

RECURSIVE get_vars_from(_, _)
get_vars_from(blocks, d) ==
    IF blocks = <<>> THEN d ELSE get_vars_from(Tail(blocks), DictSetAll(d, Head(blocks)))

\* get_vars with a slip: a name met again keeps the value it had.
get_vars_FirstWins(dfn_) ==
    LET all == get_vars_from(dfn_.blocks, <<>>)
        RECURSIVE Cat(_)
        Cat(bs) == IF bs = <<>> THEN <<>> ELSE Head(bs) \o Cat(Tail(bs))
        flat == Cat(dfn_.blocks)
    IN  [k \in 1..Len(all) |->
            flat[CHOOSE j \in 1..Len(flat) :
                     /\ flat[j].key = all[k].key
                     /\ \A m \in 1..(j - 1) : flat[m].key # all[k].key]]

\* Context.from_dfn.get_vars: the blocks' variables in one dict.  The dict is
\* new, the variables in it are the objects the blocks hold.
get_vars(dfn_) == get_vars_from(dfn_.blocks, <<>>)

\* Context.from_dfn: one context per resolved name, each holding the
\* flattened variables and the definition's other entries (dfn.copy() is a
\* shallow copy: the blocks are the definition's own, kept here as the index of
\* the definition among the loaded ones).
Context_from_dfn(i, dfn) ==
    LET names == Name_from_dfn(dfn) IN
    IF names.kind = "raise" THEN names
    ELSE Ret([k \in 1..Len(names.val) |->
                 [name |-> names.val[k], vars |-> get_vars(dfn), dfn |-> i]])

-----------------------------------------------------------------------------
(* filters.py: the filters on a context name *)

\* base with a slip: the simulation identity is compared as a list, which no
\* tuple equals.
base_ListCompare(name) ==
    IF name = PyList(<<"sim", "nam">>) THEN "MFSimulationBase"
    ELSE IF name.v[2] = None THEN "MFModel"
    ELSE "MFPackage"

\* Filters.base
base(name) ==
    IF name = PyTuple(<<"sim", "nam">>) THEN "MFSimulationBase"
    ELSE IF name.v[2] = None THEN "MFModel"
    ELSE "MFPackage"

\* Filters.title
title(name) ==
    LET l == name.v[1]
        r == name.v[2]
    IN  IF name = PyTuple(<<"sim", "nam">>) THEN "simulation"
        ELSE IF l = None THEN r
        ELSE IF r = None THEN l
        ELSE IF l = "sim" THEN r
        ELSE IF l \in {"sln", "exg"} THEN r
        ELSE l \o r

-----------------------------------------------------------------------------
(* __init__.py *)

\* make_targets._get_template_name
get_template_name(name) ==
    LET b == base(name) IN
    IF b = "MFSimulationBase" THEN Ret("simulation.py.jinja")
    ELSE IF b = "MFModel" THEN Ret("model.py.jinja")
    ELSE IF b = "MFPackage" THEN
        IF name.v[1] = "exg" THEN Ret("exchange.py.jinja") ELSE Ret("package.py.jinja")
    ELSE Raise("NotImplementedError")

RECURSIVE Chain(_, _)
\* chain.from_iterable(Context.from_dfn(dfn) for dfn in dfns.values()), from
\* definition i on: the first exception ends it
Chain(ds, i) ==
    IF i > Len(ds) THEN Ret(<<>>)
    ELSE LET c == Context_from_dfn(i, ds[i]) IN
         IF c.kind = "raise" THEN c
         ELSE LET rest == Chain(ds, i + 1) IN
              IF rest.kind = "raise" THEN rest ELSE Ret(c.val \o rest.val)

RECURSIVE WriteTargets(_, _, _)
\* the loop of make_targets over the contexts cs from position k on: the
\* files written, and the exception that stopped it, if any
WriteTargets(cs, k, written) ==
    IF k > Len(cs) THEN [files |-> written, err |-> None]
    ELSE LET name == cs[k].name
             target_path == "mf" \o title(name) \o ".py"
             template == get_template_name(name)
         IN  IF template.kind = "raise" THEN [files |-> written, err |-> template.exc]
             ELSE WriteTargets(cs, k + 1,
                      Append(written, [path |-> target_path, template |-> template.val,
                                       name |-> name, dfn |-> cs[k].dfn]))

\* make_init
make_init ==
    /\ pc = "make_init"
    /\ LET cs == Chain(dfns, 1) IN
       IF cs.kind = "raise"
       THEN /\ pc' = "failed"
            /\ err' = cs.exc
            /\ UNCHANGED <<contexts, files>>
       ELSE /\ contexts' = cs.val
            /\ files' = Append(files, [path |-> "__init__.py", template |-> "__init__.py.jinja",
                                       name |-> Context_Name(None, None), dfn |-> 0])
            /\ pc' = IF Len(dfns) = 0 THEN "done" ELSE "make_targets"
            /\ UNCHANGED err
    /\ UNCHANGED <<dfns, idx>>
    /\ UNCHANGED flt

\* make_targets, for the next definition make_all hands it
make_targets ==
    /\ pc = "make_targets"
    /\ idx <= Len(dfns)
    /\ LET cs == Context_from_dfn(idx, dfns[idx]) IN
       IF cs.kind = "raise"
       THEN /\ pc' = "failed"
            /\ err' = cs.exc
            /\ UNCHANGED <<files, idx>>
       ELSE LET w == WriteTargets(cs.val, 1, files) IN
            /\ files' = w.files
            /\ err' = w.err
            /\ IF w.err # None
               THEN pc' = "failed" /\ UNCHANGED idx
               ELSE /\ idx' = idx + 1
                    /\ pc' = IF idx = Len(dfns) THEN "done" ELSE "make_targets"
    /\ UNCHANGED <<dfns, contexts>>
    /\ UNCHANGED flt

-----------------------------------------------------------------------------
(* the schema sets make_all is run on *)

MaxDfns == 3

Lefts == {"sim", "gwf", "gwt", "exg"}
Rights == {"nam", "mvr", "gnc", "mvt"}

\* a definition with the identity string "l-r"
Dfn(l, r) == [has_name |-> TRUE, name |-> <<l, "-", r>>, blocks |-> <<>>]

\* the definitions the loader can supply: an identity string of two
\* components, and the two ways of lacking one
Definitions ==
    {Dfn(l, r) : l \in Lefts, r \in Rights}
        \cup {[has_name |-> FALSE, name |-> <<>>, blocks |-> <<>>],
              [has_name |-> TRUE, name |-> <<>>, blocks |-> <<>>]}

\* make_all running: no filter is being called
FltIdle ==
    /\ ctx_name = Context_Name(None, None)
    /\ vars_ = <<>>
    /\ given = <<>>
    /\ calls = 0
    /\ out = NotCalled

\* a filter called on its own, at step p: make_all is not running
DrvIdle(p) ==
    /\ dfns = <<>>
    /\ pc = p
    /\ idx = 0
    /\ contexts = <<>>
    /\ files = <<>>
    /\ err = None

\* make_all after Dfn.load_all: the definitions have pairwise distinct
\* identity strings and come in any order
Init ==
    /\ dfns \in InjSeqs(Definitions, MaxDfns)
    /\ pc = "make_init"
    /\ idx = 1
    /\ contexts = <<>>
    /\ files = <<>>
    /\ err = None
    /\ FltIdle

Next == make_init \/ make_targets

Spec == Init /\ [][Next]_vars

-----------------------------------------------------------------------------
(* Name resolution and archetype dispatch over a whole run of make_all *)

\* make_init has resolved every definition's names
Resolved == pc \in {"make_targets", "done"}

HasIdentity(d) == d.has_name /\ d.name # <<>>

\* the names of the contexts make_init made from definition i, in order
CtxNamesOf(i) ==
    LET cs == SelectSeq(contexts, LAMBDA c : c.dfn = i)
    IN  [k \in 1..Len(cs) |-> cs[k].name]

\* the files make_targets wrote for definition i, in order
FilesOf(i) == SelectSeq(files, LAMBDA f : f.dfn = i)

SharedIdentityStrings ==
    {<<"gwf", "-", "mvr">>, <<"gwf", "-", "gnc">>, <<"gwt", "-", "mvt">>}

\* C1: a definition whose identity is one of gwf-mvr, gwf-gnc, gwt-mvt
\* resolves to exactly two context names, (left, right) followed by
\* (None, right).
C1_SharedIdentityYieldsBoth ==
    Resolved =>
        \A i \in 1..Len(dfns) :
            dfns[i].name \in SharedIdentityStrings =>
                CtxNamesOf(i) = <<Context_Name(dfns[i].name[1], dfns[i].name[3]),
                                  Context_Name(None, dfns[i].name[3])>>

\* C2: every definition that has an identity string resolves to one or two
\* context names, and the names it resolves to are pairwise distinct.
C2_OneOrTwoDistinct ==
    Resolved =>
        \A i \in 1..Len(dfns) :
            HasIdentity(dfns[i]) =>
                LET n == CtxNamesOf(i)
                IN  /\ Len(n) \in {1, 2}
                    /\ \A a, b \in 1..Len(n) : a # b => n[a] # n[b]

\* C2 witness: a resolved schema set with a definition of two contexts and a
\* definition of one.
C2_Witness ==
    /\ Resolved
    /\ \E i, j \in 1..Len(dfns) : Len(CtxNamesOf(i)) = 2 /\ Len(CtxNamesOf(j)) = 1

\* C3: over a schema set of pairwise distinct identity strings, no two
\* contexts share a name, neither among the contexts make_init collects nor
\* among those make_targets writes, whichever definitions they come from.
C3_ContextNamesUnique ==
    /\ Resolved =>
          \A a, b \in 1..Len(contexts) : a # b => contexts[a].name # contexts[b].name
    /\ \A a, b \in 1..Len(files) :
          (a # b /\ files[a].dfn # 0 /\ files[b].dfn # 0) => files[a].name # files[b].name

\* C3 witness: a finished run over three definitions, two of them yielding
\* two contexts each.
C3_Witness ==
    /\ pc = "done"
    /\ Len(contexts) >= 5
    /\ Cardinality({f \in Range(files) : f.dfn # 0}) >= 5

\* the classification as the dispatcher's contract words it
Archetype(name) ==
    IF name.v = <<"sim", "nam">> THEN "Simulation"
    ELSE IF name.v[2] = None THEN "Model"
    ELSE IF name.v[1] = "exg" THEN "Exchange"
    ELSE "Package"

TemplateOf(archetype) ==
    CASE archetype = "Simulation" -> "simulation.py.jinja"
      [] archetype = "Model" -> "model.py.jinja"
      [] archetype = "Exchange" -> "exchange.py.jinja"
      [] archetype = "Package" -> "package.py.jinja"

\* C4: every context make_targets handles gets the template of its archetype
\* by the priority order (sim, nam) Simulation, right absent Model, left exg
\* Exchange, else Package; the unknown-base failure is never raised; and
\* sim-nam yields (None, nam) as a Package, then (sim, nam) as the Simulation.
C4_ArchetypeDispatch ==
    /\ err # "NotImplementedError"
    /\ \A k \in 1..Len(files) :
          files[k].dfn # 0 => files[k].template = TemplateOf(Archetype(files[k].name))
    /\ \A i \in 1..Len(dfns) :
          (i < idx /\ dfns[i].name = <<"sim", "-", "nam">>) =>
              /\ Len(FilesOf(i)) = 2
              /\ FilesOf(i)[1].name = Context_Name(None, "nam")
              /\ FilesOf(i)[1].template = "package.py.jinja"
              /\ FilesOf(i)[2].name = Context_Name("sim", "nam")
              /\ FilesOf(i)[2].template = "simulation.py.jinja"

\* C4 witness: a finished run that wrote the simulation, a model, an exchange
\* and a package.
C4_Witness ==
    /\ pc = "done"
    /\ \E i \in 1..Len(dfns) : dfns[i].name = <<"sim", "-", "nam">>
    /\ {f.template : f \in {g \in Range(files) : g.dfn # 0}}
          = {"simulation.py.jinja", "model.py.jinja", "exchange.py.jinja", "package.py.jinja"}

\* the title as the contract words it
TitleRule(name) ==
    LET l == name.v[1]
        r == name.v[2]
    IN  CASE name.v = <<"sim", "nam">> -> "simulation"
          [] name.v # <<"sim", "nam">> /\ l = None -> r
          [] l # None /\ r = None -> l
          [] name.v # <<"sim", "nam">> /\ l \in {"sim", "sln", "exg"} /\ r # None -> r
          [] OTHER -> l \o r

\* C12: every context is written to mf<title>.py, the title being
\* "simulation" for (sim, nam), right when left is absent, left when right is
\* absent, right when left is sim, sln or exg, and left + right otherwise; and
\* over a schema set of pairwise distinct identities no two contexts are
\* written to the same file.
C12_TitlesUnique ==
    /\ \A k \in 1..Len(files) :
          files[k].dfn # 0 => files[k].path = "mf" \o TitleRule(files[k].name) \o ".py"
    /\ \A a, b \in 1..Len(files) :
          (a # b /\ files[a].dfn # 0 /\ files[b].dfn # 0 /\ files[a].name # files[b].name)
              => files[a].path # files[b].path

\* C13: a definition with no name entry, or an empty one, makes the name
\* resolver and the context builder fail, so the run fails with no context
\* made and no file written for that definition.
C13_NamelessFails ==
    \A i \in 1..Len(dfns) :
        ~HasIdentity(dfns[i]) =>
            /\ Name_from_dfn(dfns[i]).kind = "raise"
            /\ Context_from_dfn(i, dfns[i]).kind = "raise"
            /\ pc # "make_init" =>
                  /\ pc = "failed"
                  /\ err # None
                  /\ \A k \in 1..Len(contexts) : contexts[k].dfn # i
                  /\ FilesOf(i) = <<>>

\* C13 witness: a run over a definition with an identity, one with no name
\* entry and one with an empty name has failed.
C13_Witness ==
    /\ pc = "failed"
    /\ \E i, j, k \in 1..Len(dfns) :
          /\ HasIdentity(dfns[i])
          /\ ~dfns[j].has_name
          /\ dfns[k].has_name /\ dfns[k].name = <<>>
    /\ contexts = <<>>

-----------------------------------------------------------------------------
(* Variables of a definition *)

\* "sub" in s
In(sub, s) ==
    \E i \in 1..(Len(s) - Len(sub) + 1) : SubSeq(s, i, i + Len(sub) - 1) = sub

\* no "subpackage" entry
NoSubpkg == [key |-> None, abbr |-> None, param |-> None, val |-> None]

\* A variable: a dict with the entries the filters read.  shape and tagged
\* hold the truth value of the entry; block is None when absent; items, fields
\* and choices are empty when absent (the filters only test their truth).
Var(name, type, shape, block, tagged, subpackage, items, fields, choices) ==
    [name |-> name, type |-> type, shape |-> shape, block |-> block, tagged |-> tagged,
     subpackage |-> subpackage, items |-> items, fields |-> fields, choices |-> choices]

\* a scalar field of a record
Field(name, type) == Var(name, type, FALSE, "options", FALSE, NoSubpkg, <<>>, <<>>, <<>>)

\* dict.pop(key) on the children of a variable
Pop(d, key) == SelectSeq(d, LAMBDA v : v.name # key)

\* keyword = next(iter(fields), None); if keyword: fields.pop(keyword)
PopLeading(d) ==
    IF d # <<>> /\ d[1].name # "" THEN Pop(d, d[1].name) ELSE d

\* for term in ["filein", "fileout"]: if term in field_names: fields.pop(term)
PopFileTerms(d) == Pop(Pop(d, "filein"), "fileout")

\* untag with a slip: the file test comes before the tag test.
untag_FileFirst(var) ==
    IF var.fields = <<>> THEN var
    ELSE IF In("file", var.name) THEN [var EXCEPT !.fields = PopLeading(PopFileTerms(var.fields))]
    ELSE IF var.tagged THEN [var EXCEPT !.fields = PopLeading(var.fields)]
    ELSE var

\* Filters.untag: the variable after the call (the call changes the fields
\* dict of the variable it is given and returns that variable)
untag(var) ==
    IF var.fields = <<>> THEN var
    ELSE IF var.tagged THEN [var EXCEPT !.fields = PopLeading(var.fields)]
    ELSE IF In("file", var.name) THEN [var EXCEPT !.fields = PopLeading(PopFileTerms(var.fields))]
    ELSE var

MaxCalls == 2

\* one application of Filters.untag to variable object i
apply_untag(i) ==
    /\ pc = "untag"
    /\ calls < MaxCalls
    /\ i \in 1..Len(vars_)
    /\ vars_' = [vars_ EXCEPT ![i] = untag(vars_[i])]
    /\ out' = Ret(untag(vars_[i]))
    /\ calls' = calls + 1
    /\ UNCHANGED <<ctx_name, given>>
    /\ UNCHANGED drv

MaxFields == 3

UntagNames == {"tas_filerecord", "packagedata"}
UntagFieldNames == {"tas6", "filein", "fileout", "tas6_filename"}

\* the records untag is given: tagged or not, a file record or not, with up
\* to MaxFields fields
UntagVars ==
    {Var(n, "record", FALSE, "options", t, NoSubpkg, <<>>,
         [k \in 1..Len(fs) |-> Field(fs[k], IF k = Len(fs) THEN "string" ELSE "keyword")], <<>>) :
        n \in UntagNames, t \in BOOLEAN, fs \in InjSeqs(UntagFieldNames, MaxFields)}

InitUntag ==
    /\ \E v \in UntagVars : vars_ = <<v>> /\ given = <<v>>
    /\ ctx_name = Context_Name("utl", "spca")
    /\ calls = 0
    /\ out = NotCalled
    /\ DrvIdle("untag")

NextUntag == \E i \in 1..Len(vars_) : apply_untag(i)

SpecUntag == InitUntag /\ [][NextUntag]_vars

FieldNames(var) == [k \in 1..Len(var.fields) |-> var.fields[k].name]

\* C5: applying untag twice to a variable leaves the same children as
\* applying it once.
C5_UntagIdempotent ==
    calls = 2 => vars_[1].fields = untag(given[1]).fields

\* the children cs without the first of them
Rest(cs) == IF cs = <<>> THEN <<>> ELSE Tail(cs)

-----------------------------------------------------------------------------
(* Filters.children and Filters.type *)

\* return None
RetNone == [kind |-> "retnone"]

\* [v["name"] for v in children.values()]
Names(children_) == [k \in 1..Len(children_) |-> children_[k].name]

RECURSIVE Join(_, _)
\* sep.join(strs)
Join(strs, sep) ==
    IF strs = <<>> THEN ""
    ELSE IF Len(strs) = 1 THEN strs[1]
    ELSE strs[1] \o sep \o Join(Tail(strs), sep)

\* children with a slip: fields are looked at before items.
children_FieldsFirst(var) ==
    IF var.fields # <<>> THEN
        IF var.type = "record" THEN Ret(var.fields) ELSE Raise("AssertionError")
    ELSE IF var.items # <<>> THEN
        IF var.type = "list" THEN Ret(var.items) ELSE Raise("AssertionError")
    ELSE IF var.choices # <<>> THEN
        IF var.type = "union" THEN Ret(var.choices) ELSE Raise("AssertionError")
    ELSE RetNone

\* Filters.children
children(var) ==
    IF var.items # <<>> THEN
        IF var.type = "list" THEN Ret(var.items) ELSE Raise("AssertionError")
    ELSE IF var.fields # <<>> THEN
        IF var.type = "record" THEN Ret(var.fields) ELSE Raise("AssertionError")
    ELSE IF var.choices # <<>> THEN
        IF var.type = "union" THEN Ret(var.choices) ELSE Raise("AssertionError")
    ELSE RetNone

RECURSIVE type_NoSingleTest(_)
\* type with a slip: a list recurses into its first child whenever that child
\* is a record or a union, however many children it has.
type_NoSingleTest(var) ==
    LET ch == children(var) IN
    IF ch.kind = "raise" THEN ch
    ELSE IF ch.kind = "ret" THEN
        IF var.type = "list" THEN
            IF ch.val[1].type \in {"record", "union"}
            THEN LET t == type_NoSingleTest(ch.val[1])
                 IN  IF t.kind = "raise" THEN t ELSE Ret("[" \o t.val \o "]")
            ELSE Ret("[" \o Join(Names(ch.val), ", ") \o "]")
        ELSE IF var.type = "record" THEN Ret("(" \o Join(Names(ch.val), ", ") \o ")")
        ELSE IF var.type = "union" THEN Ret(Join(Names(ch.val), " | "))
        ELSE Ret(var.type)
    ELSE IF var.shape THEN Ret("[" \o var.type \o "]")
    ELSE Ret(var.type)

RECURSIVE type(_)
\* Filters.type
type(var) ==
    LET ch == children(var) IN
    IF ch.kind = "raise" THEN ch
    ELSE IF ch.kind = "ret" THEN
        IF var.type = "list" THEN
            IF Len(ch.val) = 1 /\ ch.val[1].type \in {"record", "union"}
            THEN LET t == type(ch.val[1])
                 IN  IF t.kind = "raise" THEN t ELSE Ret("[" \o t.val \o "]")
            ELSE Ret("[" \o Join(Names(ch.val), ", ") \o "]")
        ELSE IF var.type = "record" THEN Ret("(" \o Join(Names(ch.val), ", ") \o ")")
        ELSE IF var.type = "union" THEN Ret(Join(Names(ch.val), " | "))
        ELSE Ret(var.type)
    ELSE IF var.shape THEN Ret("[" \o var.type \o "]")
    ELSE Ret(var.type)

\* a call of Filters.children on the variable
apply_children ==
    /\ pc = "type"
    /\ out' = children(vars_[1])
    /\ calls' = calls + 1
    /\ pc' = "children_done"
    /\ UNCHANGED <<dfns, idx, contexts, files, err, ctx_name, vars_, given>>

\* a call of Filters.type on the variable
apply_type ==
    /\ pc = "type"
    /\ out' = type(vars_[1])
    /\ calls' = calls + 1
    /\ pc' = "type_done"
    /\ UNCHANGED <<dfns, idx, contexts, files, err, ctx_name, vars_, given>>

MaxChildren == 2

\* the children a list is given: a record, a union, a list, a scalar, and a
\* record without fields
ItemKids ==
    LET x == Field("x", "string")
        y == Field("y", "integer")
    IN  {Var("rec", "record", FALSE, "options", FALSE, NoSubpkg, <<>>, <<x, y>>, <<>>),
         Var("uni", "union", FALSE, "options", FALSE, NoSubpkg, <<>>, <<>>, <<x, y>>),
         Var("lst", "list", FALSE, "options", FALSE, NoSubpkg, <<x>>, <<>>, <<>>),
         Var("norec", "record", FALSE, "options", FALSE, NoSubpkg, <<>>, <<>>, <<>>),
         Field("a", "double precision")}
FieldKids == {Field("f", "keyword"), Field("g", "string")}
ChoiceKids == {Field("c", "keyword"), Field("d", "integer")}

TypeKinds == {"keyword", "double precision", "list", "record", "union"}

\* the variables children and type are given: any declared type with any of
\* items, fields and choices populated, whether or not they fit the type
TypeVars ==
    {Var("v", t, sh, "options", FALSE, NoSubpkg, i, f, c) :
        t \in TypeKinds, sh \in BOOLEAN, i \in InjSeqs(ItemKids, MaxChildren),
        f \in InjSeqs(FieldKids, MaxChildren), c \in InjSeqs(ChoiceKids, MaxChildren)}

InitType ==
    /\ \E v \in TypeVars : vars_ = <<v>> /\ given = <<v>>
    /\ ctx_name = Context_Name("utl", "spca")
    /\ calls = 0
    /\ out = NotCalled
    /\ DrvIdle("type")

NextType == apply_children \/ apply_type

SpecType == InitType /\ [][NextType]_vars

\* the populated ones of items, fields, choices, in that order, each with the
\* type it belongs to
Populated(v) ==
    SelectSeq(<<[of |-> "list", c |-> v.items], [of |-> "record", c |-> v.fields],
                [of |-> "union", c |-> v.choices]>>, LAMBDA e : e.c # <<>>)

Composite == {"list", "record", "union"}

RECURSIVE WellFormed(_)
\* the data model's invariant: a scalar has no children, and a list, record
\* or union has exactly its own collection populated, with such children
WellFormed(v) ==
    LET p == Populated(v) IN
    IF v.type \in Composite
    THEN Len(p) = 1 /\ p[1].of = v.type /\ \A k \in 1..Len(p[1].c) : WellFormed(p[1].c[k])
    ELSE p = <<>>

RECURSIVE TypeRule(_)
\* the type string by the stated rules
TypeRule(v) ==
    LET cs == Populated(v)[1].c IN
    CASE v.type \notin Composite /\ ~v.shape -> v.type
      [] v.type \notin Composite /\ v.shape -> "[" \o v.type \o "]"
      [] v.type = "list" /\ Len(cs) = 1 /\ cs[1].type \in {"record", "union"} ->
             "[" \o TypeRule(cs[1]) \o "]"
      [] v.type = "list" /\ ~(Len(cs) = 1 /\ cs[1].type \in {"record", "union"}) ->
             "[" \o Join(Names(cs), ", ") \o "]"
      [] v.type = "record" -> "(" \o Join(Names(cs), ", ") \o ")"
      [] v.type = "union" -> Join(Names(cs), " | ")

\* C9: for every finitely nested variable of the data model, Filters.type
\* returns a string, and the string is the one the recursive rules give: the
\* kind, "[kind]" when shaped, "[" type(child) "]" for a list of one record or
\* union, the bracketed child names for any other list, the parenthesised
\* child names for a record, the names joined by " | " for a union.
C9_TypeFollowsRules ==
    (pc = "type_done" /\ WellFormed(given[1])) => out = Ret(TypeRule(given[1]))

\* C9 witness: a list of one record has been stringified through the record.
C9_Witness ==
    /\ pc = "type_done"
    /\ WellFormed(given[1])
    /\ given[1].type = "list" /\ Names(given[1].items) = <<"rec">>
    /\ out = Ret("[(x, y)]")

-----------------------------------------------------------------------------
(* Filters.attrs *)

\* modflow_devtools.dfn._MF6_SCALARS, imported by Filters.attrs
MF6_SCALARS == {"keyword", "integer", "double precision", "string"}

HasSubpkg(var) == var.subpackage # NoSubpkg

\* Filters.package_abbr
package_abbr(name) ==
    IF name.v[1] \in {"sim", "sln", "exg", None} THEN name.v[2]
    ELSE name.v[1] \o name.v[2]

\* Filters.dfn_file_name ('-'.join fails on a None component)
dfn_file_name(name) ==
    IF name.v[1] = "exg"
    THEN IF name.v[2] = None THEN Raise("TypeError")
         ELSE Ret(name.v[1] \o "-" \o name.v[2] \o ".dfn")
    ELSE Ret((IF name.v[1] \in {None, ""} THEN "sim" ELSE name.v[1]) \o "-" \o name.v[2] \o ".dfn")

\* the argument tuple of a template generator: the right component, the
\* block and the key, led by the left component + "6" for a model's package
GeneratorArgs(name, block, key) ==
    LET args == <<"'" \o name.v[2] \o "'", "'" \o block \o "'", "'" \o key \o "'">>
    IN  IF name.v[1] # None /\ name.v[1] \notin {"sim", "sln", "utl", "exg"}
        THEN <<"'" \o name.v[1] \o "6'">> \o args
        ELSE args

\* _attr with a slip: in a model's name file it is packages that is left out.
_attr_PackagesExcluded(name, var) ==
    IF \/ (var.type \in MF6_SCALARS /\ ~var.shape)
       \/ var.name \in {"cvoptions", "output"}
       \/ (name.v[2] = "dis" /\ var.name = "packagedata")
       \/ (var.name = "packages" /\ (name.v[1] # None /\ name.v[2] = "nam"))
    THEN RetNone
    ELSE LET is_array == var.type \in {"string", "integer", "double precision"} /\ var.shape
             is_composite == var.type \in {"list", "record", "union"}
         IN  IF is_array \/ is_composite THEN
                 IF var.block \in {None, ""} THEN Raise("ValueError")
                 ELSE IF ~is_array /\ HasSubpkg(var) THEN
                     Ret(var.subpackage.key \o " = ListTemplateGenerator(("
                         \o Join(GeneratorArgs(name, var.block, var.subpackage.key), ", ") \o "))")
                 ELSE
                     Ret(var.name \o " = " \o (IF is_array THEN "Array" ELSE "List")
                         \o "TemplateGenerator(("
                         \o Join(GeneratorArgs(name, var.block, var.name), ", ") \o "))")
             ELSE RetNone

\* Filters.attrs._attr: the attribute a variable becomes, or None
_attr(name, var) ==
    IF \/ (var.type \in MF6_SCALARS /\ ~var.shape)
       \/ var.name \in {"cvoptions", "output"}
       \/ (name.v[2] = "dis" /\ var.name = "packagedata")
       \/ (var.name # "packages" /\ (name.v[1] # None /\ name.v[2] = "nam"))
    THEN RetNone
    ELSE LET is_array == var.type \in {"string", "integer", "double precision"} /\ var.shape
             is_composite == var.type \in {"list", "record", "union"}
         IN  IF is_array \/ is_composite THEN
                 IF var.block \in {None, ""} THEN Raise("ValueError")
                 ELSE IF ~is_array /\ HasSubpkg(var) THEN
                     Ret(var.subpackage.key \o " = ListTemplateGenerator(("
                         \o Join(GeneratorArgs(name, var.block, var.subpackage.key), ", ") \o "))")
                 ELSE
                     Ret(var.name \o " = " \o (IF is_array THEN "Array" ELSE "List")
                         \o "TemplateGenerator(("
                         \o Join(GeneratorArgs(name, var.block, var.name), ", ") \o "))")
             ELSE RetNone

RECURSIVE AttrList(_, _)
\* list(filter(None, [_attr(v) for v in vars_.values()])): the first failure
\* ends the comprehension
AttrList(name, vs) ==
    IF vs = <<>> THEN Ret(<<>>)
    ELSE LET a == _attr(name, Head(vs)) IN
         IF a.kind = "raise" THEN a
         ELSE LET rest == AttrList(name, Tail(vs)) IN
              IF rest.kind = "raise" THEN rest
              ELSE IF a.kind = "retnone" THEN rest
              ELSE Ret(<<a.val>> \o rest.val)

\* pformat of the context entries left after dfn_skip (rendering not expanded)
pformat_dfn == "{'blocks': {...}}"

\* attrs with a slip: the metadata is appended whatever the archetype.
attrs_MetadataForAll(name, vs) ==
    LET as == AttrList(name, vs)
        file == dfn_file_name(name)
    IN  IF as.kind = "raise" THEN as
        ELSE IF file.kind = "raise" THEN file
        ELSE Ret(as.val \o <<"package_abbr = '" \o package_abbr(name) \o "'",
                             "_package_type = '" \o name.v[2] \o "'",
                             "dfn_file_name = '" \o file.val \o "'",
                             "dfn = " \o pformat_dfn>>)

\* Filters.attrs
attrs(name, vs) ==
    LET as == AttrList(name, vs)
        file == dfn_file_name(name)
    IN  IF as.kind = "raise" THEN as
        ELSE IF file.kind = "raise" THEN file
        ELSE IF base(name) = "MFPackage"
        THEN Ret(as.val \o <<"package_abbr = '" \o package_abbr(name) \o "'",
                             "_package_type = '" \o name.v[2] \o "'",
                             "dfn_file_name = '" \o file.val \o "'",
                             "dfn = " \o pformat_dfn>>)
        ELSE as

\* a call of Filters.attrs on the context's variables
apply_attrs ==
    /\ pc = "attrs"
    /\ out' = attrs(ctx_name, vars_)
    /\ calls' = calls + 1
    /\ pc' = "attrs_done"
    /\ UNCHANGED <<dfns, idx, contexts, files, err, ctx_name, vars_, given>>

MaxVars == 2

\* the variable lists of a context: the values of a dict, so no name twice
VarSeqs(S, n) ==
    UNION {{s \in [1..k -> S] : \A i, j \in 1..k : i # j => s[i].name # s[j].name} : k \in 0..n}

AttrCtxNames ==
    {Context_Name("gwf", "nam"), Context_Name(None, "nam"), Context_Name("sim", "nam"),
     Context_Name("gwf", None), Context_Name("gwf", "dis"), Context_Name("utl", "spca"),
     Context_Name("exg", "gwfgwf")}

AttrVarNames == {"packages", "cvoptions", "output", "packagedata", "concentration"}

ObsRef == [key |-> "obs_filerecord", abbr |-> "obs", param |-> "observations", val |-> "continuous"]

\* the variables attrs is given: scalars with and without a shape, and
\* records with and without a block and a subpackage reference
AttrVars ==
    {Var(n, t, sh, "options", FALSE, NoSubpkg, <<>>, <<>>, <<>>) :
        n \in AttrVarNames, t \in {"keyword", "double precision"}, sh \in BOOLEAN}
    \cup {Var(n, "double precision", TRUE, None, FALSE, NoSubpkg, <<>>, <<>>, <<>>) :
            n \in AttrVarNames}
    \cup {Var(n, "record", FALSE, b, FALSE, sp, <<>>, <<Field("x", "string")>>, <<>>) :
            n \in AttrVarNames, b \in {None, "period"}, sp \in {NoSubpkg, ObsRef}}

InitAttrs ==
    /\ ctx_name \in AttrCtxNames
    /\ vars_ \in VarSeqs(AttrVars, MaxVars)
    /\ given = vars_
    /\ calls = 0
    /\ out = NotCalled
    /\ DrvIdle("attrs")

NextAttrs == apply_attrs

SpecAttrs == InitAttrs /\ [][NextAttrs]_vars

\* the left side of an attribute declaration "key = ..."
AttrKey(s) ==
    LET i == CHOOSE k \in 1..Len(s) :
                 /\ SubSeq(s, k, k + 2) = " = "
                 /\ \A m \in 1..(k - 1) : SubSeq(s, m, m + 2) # " = "
    IN  SubSeq(s, 1, i - 1)

MetadataKeys == {"package_abbr", "_package_type", "dfn_file_name", "dfn"}

\* the keys of the attributes that come from variables, in order
VarAttrKeys(as) ==
    LET ks == [k \in 1..Len(as) |-> AttrKey(as[k])]
    IN  SelectSeq(ks, LAMBDA k : k \notin MetadataKeys)

\* the key a variable is declared under
DeclKey(v) ==
    IF v.type \in Composite /\ HasSubpkg(v) THEN v.subpackage.key ELSE v.name

\* a list, record or union, or a shaped string, integer or double
Backed(v) ==
    \/ v.type \in Composite
    \/ (v.type \in {"string", "integer", "double precision"} /\ v.shape)

\* the exclusions shared by the claim and its amendment
ExcludedAnywhere(name, v) ==
    \/ (v.type \in MF6_SCALARS /\ ~v.shape)
    \/ v.name \in {"cvoptions", "output"}
    \/ (v.name = "packagedata" /\ name.v[2] = "dis")

NamContext(name) == name.v[2] = "nam" /\ name.v[1] # None

\* C6: a shape-less scalar never yields an attribute, cvoptions and output
\* never do, packagedata is excluded only when the right component is dis,
\* and in a context (left, nam) with left present packages yields no
\* attribute, while every other list, record, union or shaped primitive that
\* has an owning block yields one.
C6_ExclusionsAsStated ==
    (pc = "attrs_done" /\ \A k \in 1..Len(given) : given[k].block # None) =>
        /\ out.kind = "ret"
        /\ VarAttrKeys(out.val) =
               LET yields == SelectSeq(given, LAMBDA v :
                                 /\ ~ExcludedAnywhere(ctx_name, v)
                                 /\ ~(NamContext(ctx_name) /\ v.name = "packages")
                                 /\ Backed(v))
               IN  [k \in 1..Len(yields) |-> DeclKey(yields[k])]

\* C6 as the code has it: a shape-less scalar never yields an attribute,
\* cvoptions and output never do, packagedata does not when the right
\* component is dis, and in a context (left, nam) with left present every
\* variable other than packages yields none; every variable not excluded so
\* that is a list, record or union, or a shaped string, integer or double
\* precision, yields exactly one attribute, in variable order, and the call
\* fails when one of these has no owning block.
C6_ExclusionsAsCoded ==
    pc = "attrs_done" =>
        LET yields == SelectSeq(given, LAMBDA v :
                          /\ ~ExcludedAnywhere(ctx_name, v)
                          /\ ~(NamContext(ctx_name) /\ v.name # "packages")
                          /\ Backed(v))
        IN  IF \E k \in 1..Len(yields) : yields[k].block = None
            THEN out = Raise("ValueError")
            ELSE /\ out.kind = "ret"
                 /\ VarAttrKeys(out.val) = [k \in 1..Len(yields) |-> DeclKey(yields[k])]

\* C6 witness: in (gwf, nam) a packages record and another record, both with
\* a block, have been given, and only packages was declared.
C6_Witness ==
    /\ pc = "attrs_done"
    /\ ctx_name = Context_Name("gwf", "nam")
    /\ Len(given) = 2
    /\ given[1].name = "packages" /\ given[1].type = "record" /\ given[1].block # None
    /\ given[2].name = "concentration" /\ given[2].type = "record" /\ given[2].block # None
    /\ ~HasSubpkg(given[1])
    /\ out.kind = "ret"
    /\ VarAttrKeys(out.val) = <<"packages">>

\* an attribute that declares a variable: a template generator
IsVarAttr(s) == In("TemplateGenerator((", s)

\* the attributes after the leading run of variable attributes
AfterVarAttrs(as) ==
    LET n == Cardinality({k \in 1..Len(as) : \A m \in 1..k : IsVarAttr(as[m])})
    IN  SubSeq(as, n + 1, Len(as))

\* the schema-file name: both components joined for an exchange, and the
\* left component, or sim when there is none, joined with the right otherwise
SchemaFileName(name) ==
    IF name.v[1] = "exg" THEN "exg-" \o name.v[2] \o ".dfn"
    ELSE (IF name.v[1] = None THEN "sim" ELSE name.v[1]) \o "-" \o name.v[2] \o ".dfn"

\* the abbreviation, the type tag and the schema-file name of a package
FixedMetadata(name) ==
    <<"package_abbr = '" \o package_abbr(name) \o "'",
      "_package_type = '" \o name.v[2] \o "'",
      "dfn_file_name = '" \o SchemaFileName(name) \o "'">>

\* a Package context, an exchange being one rendered by its own template
PackageArchetypes == {"Package", "Exchange"}

\* C11: for a Package context Filters.attrs appends, after all variable
\* attributes, exactly three metadata attributes: the abbreviation, the type
\* tag equal to the right component and the schema-file name; Simulation and
\* Model contexts get none.
C11_ThreeMetadataAttrs ==
    (pc = "attrs_done" /\ out.kind = "ret") =>
        AfterVarAttrs(out.val) =
            IF Archetype(ctx_name) \in PackageArchetypes THEN FixedMetadata(ctx_name) ELSE <<>>

\* C11 as the code has it: for a Package context Filters.attrs appends, after
\* all variable attributes, exactly four attributes: the abbreviation, the
\* type tag equal to the right component, the schema-file name and, last, dfn,
\* the rendering of the definition; Simulation and Model contexts get none.
C11_FourMetadataAttrs ==
    (pc = "attrs_done" /\ out.kind = "ret") =>
        LET rest == AfterVarAttrs(out.val) IN
        IF Archetype(ctx_name) \in PackageArchetypes
        THEN /\ Len(rest) = 4
             /\ SubSeq(rest, 1, 3) = FixedMetadata(ctx_name)
             /\ AttrKey(rest[4]) = "dfn"
        ELSE rest = <<>>

\* C11 witness: (utl, spca) with one shaped array has been rendered: the
\* array's attribute, then utlspca, spca and utl-spca.dfn, then dfn.
C11_Witness ==
    /\ pc = "attrs_done"
    /\ ctx_name = Context_Name("utl", "spca")
    /\ out.kind = "ret"
    /\ Len(out.val) = 5
    /\ out.val[1] = "concentration = ArrayTemplateGenerator(('spca', 'options', 'concentration'))"
    /\ out.val[2] = "package_abbr = 'utlspca'"
    /\ out.val[3] = "_package_type = 'spca'"
    /\ out.val[4] = "dfn_file_name = 'utl-spca.dfn'"
    /\ AttrKey(out.val[5]) = "dfn"

-----------------------------------------------------------------------------
(* Filters.init *)

\* keyword.kwlist
kwlist ==
    {"False", "None", "True", "and", "as", "assert", "async", "await", "break", "class",
     "continue", "def", "del", "elif", "else", "except", "finally", "for", "from", "global",
     "if", "import", "in", "is", "lambda", "nonlocal", "not", "or", "pass", "raise",
     "return", "try", "while", "with", "yield"}

\* name = var["name"]; if name in kwlist: name = f"{name}_"
KwSafe(n) == IF n \in kwlist THEN n \o "_" ELSE n

\* s.endswith("_")
EndsWithUnderscore(s) == Len(s) > 0 /\ SubSeq(s, Len(s), Len(s)) = "_"

RECURSIVE ReplaceHyphens(_)
\* s.replace("-", "_")
ReplaceHyphens(s) ==
    IF Len(s) = 0 THEN ""
    ELSE (IF SubSeq(s, 1, 1) = "-" THEN "_" ELSE SubSeq(s, 1, 1))
             \o ReplaceHyphens(SubSeq(s, 2, Len(s)))

\* self.<param> = self._create_package('<abbr>', <param>)
CreatePackageStmt(subpkg) ==
    "self." \o subpkg.param \o " = self._create_package('" \o subpkg.abbr \o "', "
        \o subpkg.param \o ")"

\* the two statements that set a variable through the name file
NameFileStmts(n) ==
    <<"self.name_file." \o n \o ".set_data(" \o n \o ")",
      "self." \o n \o " = self.name_file." \o n>>

SimulationSkip == {"tdis6", "models", "exchanges", "mxiter", "solutiongroup", "hpc_data"}
ModelSkip == {"export_netcdf", "nc_filerecord", "packages"}
PackageSkip ==
    {"simulation", "model", "package", "parent_model", "parent_package",
     "parent_model_or_package", "parent_file", "modelname", "model_nam_file",
     "export_netcdf", "nc_filerecord", "method", "interpolation_method_single", "sfac",
     "output"}

RECURSIVE init_simulation(_, _)
\* the MFSimulationBase branch: the statements for the variables vs, refs
\* being the reference keys met before them
init_simulation(vs, refs) ==
    IF vs = <<>> THEN <<>>
    ELSE LET var == Head(vs)
             n == KwSafe(var.name)
             subpkg == var.subpackage
             fresh == HasSubpkg(var) /\ subpkg.key \notin refs
         IN  (IF var.name \notin SimulationSkip THEN NameFileStmts(n) ELSE <<>>)
                 \o (IF fresh THEN <<CreatePackageStmt(subpkg)>> ELSE <<>>)
                 \o init_simulation(Tail(vs), IF fresh THEN refs \cup {subpkg.key} ELSE refs)

RECURSIVE init_model(_, _)
\* the MFModel branch
init_model(vs, refs) ==
    IF vs = <<>> THEN <<>>
    ELSE LET var == Head(vs)
             n == KwSafe(var.name)
             subpkg == var.subpackage
             fresh == HasSubpkg(var) /\ subpkg.key \notin refs
         IN  (IF var.name \notin ModelSkip THEN NameFileStmts(n) ELSE <<>>)
                 \o (IF fresh THEN <<CreatePackageStmt(subpkg)>> ELSE <<>>)
                 \o init_model(Tail(vs), IF fresh THEN refs \cup {subpkg.key} ELSE refs)

\* Filters.init._should_build
should_build(name, var) ==
    IF HasSubpkg(var) /\ name # PyTuple(<<None, "nam">>) THEN FALSE
    ELSE var.name \notin PackageSkip

\* the statement that builds a package's own variable
BuildStmt(name, var) ==
    LET n == KwSafe(var.name)
        subpkg == var.subpackage
        us == IF HasSubpkg(var) THEN "_" ELSE ""
    IN  IF HasSubpkg(var) /\ name = PyTuple(<<None, "nam">>)
        THEN "self." \o us \o subpkg.key \o " = self.build_mfdata('" \o subpkg.key \o "', None)"
        ELSE LET name_ == IF EndsWithUnderscore(n) THEN SubSeq(n, 1, Len(n) - 1) ELSE n
                 n2 == ReplaceHyphens(n)
             IN  "self." \o us \o n2 \o " = self.build_mfdata('" \o name_ \o "', " \o n2 \o ")"

\* the two statements that bind a reference key and build the child package
ChildPackageStmts(subpkg) ==
    <<"self._" \o subpkg.key \o " = self.build_mfdata('" \o subpkg.key \o "', None)",
      "self._" \o subpkg.abbr \o "_package = self.build_child_package('" \o subpkg.abbr
          \o "', " \o subpkg.val \o ", '" \o subpkg.param \o "', self._" \o subpkg.key \o ")">>

RECURSIVE init_package_NoDedup(_, _, _)
\* init_package with a slip: the test that the key was met before is lost.
init_package_NoDedup(name, vs, refs) ==
    IF vs = <<>> THEN <<>>
    ELSE LET var == Head(vs)
             subpkg == var.subpackage
             fresh == HasSubpkg(var) /\ name.v[2] # "nam"
         IN  (IF should_build(name, var) THEN <<BuildStmt(name, var)>> ELSE <<>>)
                 \o (IF fresh THEN ChildPackageStmts(subpkg) ELSE <<>>)
                 \o init_package_NoDedup(name, Tail(vs),
                                         IF fresh THEN refs \cup {subpkg.key} ELSE refs)

RECURSIVE init_package(_, _, _)
\* the MFPackage branch
init_package(name, vs, refs) ==
    IF vs = <<>> THEN <<>>
    ELSE LET var == Head(vs)
             subpkg == var.subpackage
             fresh == HasSubpkg(var) /\ subpkg.key \notin refs /\ name.v[2] # "nam"
         IN  (IF should_build(name, var) THEN <<BuildStmt(name, var)>> ELSE <<>>)
                 \o (IF fresh THEN ChildPackageStmts(subpkg) ELSE <<>>)
                 \o init_package(name, Tail(vs), IF fresh THEN refs \cup {subpkg.key} ELSE refs)

\* Filters.init: list(filter(None, _statements()))
init(name, vs) ==
    LET stmts == IF base(name) = "MFSimulationBase" THEN init_simulation(vs, {})
                 ELSE IF base(name) = "MFModel" THEN init_model(vs, {})
                 ELSE init_package(name, vs, {})
    IN  Ret(SelectSeq(stmts, LAMBDA st : st # ""))

\* a call of Filters.init on the context's variables
apply_init ==
    /\ pc = "init"
    /\ out' = init(ctx_name, vars_)
    /\ calls' = calls + 1
    /\ pc' = "init_done"
    /\ UNCHANGED <<dfns, idx, contexts, files, err, ctx_name, vars_, given>>

MaxInitVars == 3

InitCtxNames ==
    {Context_Name("sim", "nam"), Context_Name("gwf", None), Context_Name(None, "nam"),
     Context_Name("gwf", "nam"), Context_Name("gwf", "chd")}

InitVarNames == {"continue", "export_netcdf", "maxbound", "tdis6", "timeseries"}

TsRef == [key |-> "ts_filerecord", abbr |-> "ts", param |-> "timeseries", val |-> "timeseries"]

\* the variables init is given: each with no subpackage reference or one of
\* two
InitVars ==
    {Var(n, "record", FALSE, "options", FALSE, sp, <<>>, <<Field("x", "string")>>, <<>>) :
        n \in InitVarNames, sp \in {NoSubpkg, TsRef, ObsRef}}

InitInit ==
    /\ ctx_name \in InitCtxNames
    /\ vars_ \in VarSeqs(InitVars, MaxInitVars)
    /\ given = vars_
    /\ calls = 0
    /\ out = NotCalled
    /\ DrvIdle("init")

NextInit == apply_init

SpecInit == InitInit /\ [][NextInit]_vars

\* the positions of the variables that carry reference key k
Carriers(vs, k) == {i \in 1..Len(vs) : HasSubpkg(vs[i]) /\ vs[i].subpackage.key = k}

FirstCarrier(vs, k) == CHOOSE i \in Carriers(vs, k) : \A j \in Carriers(vs, k) : i <= j

\* st constructs the child package of the reference
Constructs(st, subpkg) ==
    \/ In("self._create_package('" \o subpkg.abbr \o "', ", st)
    \/ In("self.build_child_package('" \o subpkg.abbr \o "', ", st)

ConstructionsOf(stmts, subpkg) == {q \in 1..Len(stmts) : Constructs(stmts[q], subpkg)}

IsPrefix(a, b) == Len(a) <= Len(b) /\ SubSeq(b, 1, Len(a)) = a

\* exactly one construction statement for the reference, emitted with the
\* first variable that carries its key: it ends the statements of the
\* variables up to that one, and none of the variables before it has it
OnceAtFirstCarrier(subpkg) ==
    LET f == FirstCarrier(given, subpkg.key)
        upto == init(ctx_name, SubSeq(given, 1, f)).val
        before == init(ctx_name, SubSeq(given, 1, f - 1)).val
    IN  /\ Cardinality(ConstructionsOf(out.val, subpkg)) = 1
        /\ IsPrefix(upto, out.val)
        /\ upto # <<>> /\ Constructs(upto[Len(upto)], subpkg)
        /\ ConstructionsOf(before, subpkg) = {}

\* a package context for a name file
NameFilePackage(name) == base(name) = "MFPackage" /\ name.v[2] = "nam"

\* C7: in every context, Simulation, Model or Package, name-file packages
\* included, whose variables have two or more carrying one reference key,
\* Filters.init emits exactly one child-package-construction statement for
\* the key, at the position of the first variable carrying it.
C7_DedupEveryArchetype ==
    pc = "init_done" =>
        \A subpkg \in {TsRef, ObsRef} :
            Cardinality(Carriers(given, subpkg.key)) >= 2 => OnceAtFirstCarrier(subpkg)

\* C7 as the code has it: the same in every Simulation and Model context and
\* in every Package context whose right component is not nam; in a name-file
\* package context no child-package-construction statement is emitted.
C7_DedupExceptNameFile ==
    pc = "init_done" =>
        \A subpkg \in {TsRef, ObsRef} :
            Cardinality(Carriers(given, subpkg.key)) >= 2 =>
                IF NameFilePackage(ctx_name)
                THEN ConstructionsOf(out.val, subpkg) = {}
                ELSE OnceAtFirstCarrier(subpkg)

\* C7 witness: a package context (gwf, chd) given three variables, the last
\* two carrying ts_filerecord, has built the ts child package once.
C7_Witness ==
    /\ pc = "init_done"
    /\ ctx_name = Context_Name("gwf", "chd")
    /\ Carriers(given, "ts_filerecord") = {2, 3}
    /\ Cardinality(ConstructionsOf(out.val, TsRef)) = 1

\* the statement that binds a reference key to an empty placeholder
KeyBinder(subpkg) == "self._" \o subpkg.key \o " = self.build_mfdata('" \o subpkg.key \o "', None)"

\* C15: in a Package context every non-excluded variable carrying a
\* subpackage reference gets its key bound by at least one statement: in the
\* name-file context the key is bound directly to an empty placeholder, in
\* every other package context the binder is followed by the child-package
\* construction; no package context, (left, nam) with left present included,
\* leaves such a variable with no statement at all.
C15_ReferenceKeyBound ==
    (pc = "init_done" /\ Archetype(ctx_name) \in PackageArchetypes) =>
        \A k \in 1..Len(given) :
            (HasSubpkg(given[k]) /\ given[k].name \notin PackageSkip) =>
                LET subpkg == given[k].subpackage IN
                /\ \E j \in 1..Len(out.val) : out.val[j] = KeyBinder(subpkg)
                /\ ctx_name.v[2] # "nam" =>
                      \E j \in 1..(Len(out.val) - 1) :
                          /\ out.val[j] = KeyBinder(subpkg)
                          /\ Constructs(out.val[j + 1], subpkg)

-----------------------------------------------------------------------------
(* The contexts of one definition and the variables they hold *)

MaxBlocks == 2
MaxBlockVars == 2

BlockNames == <<"options", "dimensions", "period", "packagedata">>

RECURSIVE Cat(_)
\* the entries of all blocks, in block order and declaration order
Cat(blocks) == IF blocks = <<>> THEN <<>> ELSE Head(blocks) \o Cat(Tail(blocks))

\* what a block can declare: up to MaxBlockVars variables of different names
BlockDecls(S) == VarSeqs(S, MaxBlockVars)

\* the blocks a definition can have: up to MaxBlocks, each some declarations
Layouts(S) == UNION {[1..n -> BlockDecls(S)] : n \in 1..MaxBlocks}

\* the variable objects of a layout, in declaration order: each is its own
\* object and knows the block that owns it
Objects(layout) ==
    Cat([b \in 1..Len(layout) |->
            [k \in 1..Len(layout[b]) |-> [layout[b][k] EXCEPT !.block = BlockNames[b]]]])

RECURSIVE Offset(_, _)
\* how many variables the blocks before block b declare
Offset(layout, b) == IF b = 1 THEN 0 ELSE Offset(layout, b - 1) + Len(layout[b - 1])

\* dfn["blocks"]: per block, its variables by name, each a reference to the
\* variable object
Blocks(layout) ==
    [b \in 1..Len(layout) |->
        [k \in 1..Len(layout[b]) |->
            [key |-> layout[b][k].name, ref |-> Offset(layout, b) + k]]]

\* the identity strings: a model's name file, the simulation's, a package
CtxDfnNames == {<<"gwf", "nam">>, <<"sim", "nam">>, <<"gwf", "chd">>}

\* a loaded definition over the variable objects in vars_
InitDfn(S, p) ==
    /\ \E layout \in Layouts(S), n \in CtxDfnNames :
          /\ dfns = <<[Dfn(n[1], n[2]) EXCEPT !.blocks = Blocks(layout)]>>
          /\ vars_ = Objects(layout)
          /\ given = Objects(layout)
    /\ pc = p
    /\ idx = 1
    /\ contexts = <<>>
    /\ files = <<>>
    /\ err = None
    /\ ctx_name = Context_Name(None, None)
    /\ calls = 0
    /\ out = NotCalled

\* list(Context.from_dfn(dfn)): the contexts of the definition
from_dfn(p) ==
    /\ pc = p
    /\ LET cs == Context_from_dfn(1, dfns[1]) IN
       IF cs.kind = "raise"
       THEN pc' = "failed" /\ err' = cs.exc /\ UNCHANGED contexts
       ELSE pc' = "render" \o p /\ contexts' = cs.val /\ UNCHANGED err
    /\ UNCHANGED <<dfns, idx, files>>
    /\ UNCHANGED flt

\* the variables of context c, in the order of its dict
ValuesOf(c) == [k \in 1..Len(contexts[c].vars) |-> vars_[contexts[c].vars[k].ref]]

\* Filters.untag applied to variable k of context c, while c is rendered
untag_in(c, k) ==
    /\ pc = "render_untag"
    /\ calls < MaxCalls
    /\ LET ref == contexts[c].vars[k].ref IN
       /\ vars_' = [vars_ EXCEPT ![ref] = untag(vars_[ref])]
       /\ out' = Ret(untag(vars_[ref]))
    /\ ctx_name' = contexts[c].name
    /\ calls' = calls + 1
    /\ UNCHANGED given
    /\ UNCHANGED drv

\* the records the contexts share: a file record and a tagged record
SharedVars ==
    {Var("obs_filerecord", "record", FALSE, None, FALSE, NoSubpkg, <<>>,
         <<Field("obs6", "keyword"), Field("filein", "keyword"), Field("obs6_filename", "string")>>,
         <<>>),
     Var("auxiliary", "record", FALSE, None, TRUE, NoSubpkg, <<>>,
         <<Field("aux", "keyword"), Field("auxname", "string")>>, <<>>)}

InitShare == InitDfn(SharedVars, "_untag")

NextShare ==
    \/ from_dfn("_untag")
    \/ \E c \in 1..Len(contexts) : \E k \in 1..Len(contexts[c].vars) : untag_in(c, k)

SpecShare == InitShare /\ [][NextShare]_vars

\* the variables of the definition's blocks, in declaration order
BlockValues == [j \in 1..Len(Cat(dfns[1].blocks)) |-> vars_[Cat(dfns[1].blocks)[j].ref]]

\* C14: when a definition yields two contexts, applying untag to a variable of
\* one context, in any interleaving with the other's, changes neither the
\* children of the same-named variable of the other context nor the variables
\* in the definition's blocks.
C14_ContextsIndependent ==
    [][(pc = "render_untag" /\ Len(contexts) = 2) =>
          /\ \A c \in 1..Len(contexts) :
                contexts[c].name # ctx_name' =>
                    \A k \in 1..Len(contexts[c].vars) :
                        ValuesOf(c)'[k].fields = ValuesOf(c)[k].fields
          /\ BlockValues' = BlockValues]_vars

-----------------------------------------------------------------------------
(* Flattening, and the order of the constructor statements *)

\* Filters.init applied to the variables of context c, while c is rendered
init_in(c) ==
    /\ pc = "render_init"
    /\ out' = init(contexts[c].name, ValuesOf(c))
    /\ ctx_name' = contexts[c].name
    /\ calls' = calls + 1
    /\ pc' = "init_done"
    /\ UNCHANGED <<dfns, idx, contexts, files, err, vars_, given>>

\* the variables the blocks declare: plain records, one of a keyword's name,
\* one that a model leaves out
FlatVars ==
    {Var(n, "record", FALSE, None, FALSE, NoSubpkg, <<>>, <<Field("x", "string")>>, <<>>) :
        n \in {"auxiliary", "continue", "packages"}}

InitFlatten == InitDfn(FlatVars, "_init")

NextFlatten ==
    \/ from_dfn("_init")
    \/ \E c \in 1..Len(contexts) : init_in(c)

SpecFlatten == InitFlatten /\ [][NextFlatten]_vars

\* the declarations of the definition, in block order and declaration order
Declared == Cat(dfns[1].blocks)

\* the first and the last declaration of a name
FirstDecl(key) == CHOOSE j \in 1..Len(Declared) :
                      Declared[j].key = key /\ \A m \in 1..(j - 1) : Declared[m].key # key
LastDecl(key) == CHOOSE j \in 1..Len(Declared) :
                     Declared[j].key = key /\ \A m \in (j + 1)..Len(Declared) : Declared[m].key # key

\* every declared name is a key of the mapping, once, and its value is the
\* variable of the name's last declaration
LastWriteWins(vs) ==
    /\ {vs[k].key : k \in 1..Len(vs)} = {Declared[j].key : j \in 1..Len(Declared)}
    /\ \A a, b \in 1..Len(vs) : a # b => vs[a].key # vs[b].key
    /\ \A k \in 1..Len(vs) : vs[k].ref = Declared[LastDecl(vs[k].key)].ref

RECURSIVE StatementsInOrder(_, _)
\* the statements of the variables vs, each variable's after those of the
\* variables before it
StatementsInOrder(name, vs) ==
    IF vs = <<>> THEN <<>>
    ELSE init(name, <<Head(vs)>>).val \o StatementsInOrder(name, Tail(vs))

\* the statements of Filters.init come in the order of the context's variables
InitFollows(c) ==
    (pc = "init_done" /\ contexts[c].name = ctx_name) =>
        out = Ret(StatementsInOrder(ctx_name, ValuesOf(c)))

\* C16: the context's variable mapping holds the variables of every block,
\* ordered by block order and then by declaration order within the block; a
\* name met in more than one block has the value of the last block; and the
\* statements of Filters.init come in exactly that order.
C16_FlattenedInBlockOrder ==
    \A c \in 1..Len(contexts) :
        LET vs == contexts[c].vars IN
        /\ LastWriteWins(vs)
        /\ \A a, b \in 1..Len(vs) : a < b => vs[a].ref < vs[b].ref
        /\ InitFollows(c)

\* C16 as the code has it: the mapping has one entry per declared name, the
\* names in the order of their first declaration (block order, then
\* declaration order within the block), each with the value of its last
\* declaration, which so stands at the place of the first; and the statements
\* of Filters.init come in exactly the mapping's order.
C16_FlattenedInFirstDeclOrder ==
    \A c \in 1..Len(contexts) :
        LET vs == contexts[c].vars IN
        /\ LastWriteWins(vs)
        /\ \A a, b \in 1..Len(vs) : a < b => FirstDecl(vs[a].key) < FirstDecl(vs[b].key)
        /\ InitFollows(c)

\* C16 witness: a name declared in the first block and again, after another
\* name, in the second: init has run on the mapping, which has the second
\* declaration's variable first and the other name after it.
C16_Witness ==
    /\ pc = "init_done"
    /\ Len(dfns[1].blocks) = 2
    /\ Len(Declared) = 3
    /\ Declared[1].key = Declared[3].key
    /\ \E c \in 1..Len(contexts) :
          /\ contexts[c].name = ctx_name
          /\ Len(contexts[c].vars) = 2
          /\ contexts[c].vars[1].ref = 3
          /\ contexts[c].vars[2].ref = 2
    /\ Len(out.val) >= 2

====
